---- MODULE Spec2Model ----
(***************************************************************************)
(* RandomAllocationStrategy::Allocate of mooncake-store                    *)
(* (include/allocation_strategy.h), as a state machine.  One invocation    *)
(* is split at the points where it talks to a pool: each read of a pool's  *)
(* counters and each call of a pool's allocate is one step, so that the    *)
(* other users of the pools can act in between.                            *)
(***************************************************************************)
EXTENDS Integers, Sequences, FiniteSets, TLC

\* ---- bounds of the exploration ----
SmallPools == 2   \* pool sets up to this size get arbitrary counters and orders
MaxPools == 11    \* the one larger pool set (more pools than the try limit)
MaxCap == 2       \* capacities are 1 .. MaxCap
MaxUsed == 2      \* reported usage is 0 .. MaxUsed (may exceed the capacity)
MaxSize == 3      \* requested sizes are 0 .. MaxSize (may exceed every capacity)
MaxCalls == 2     \* successive Allocate calls on a small pool set
MaxOther == 1     \* steps of the other users of the pools, per exploration

\* ---- program constant ----
max_try_limit == 10

VARIABLES
    allocators,   \* the caller's map: segment name -> pool
    capacity,     \* pool -> BufferAllocator::capacity()
    used,         \* pool -> BufferAllocator::size()
    objectSize,   \* the argument of the running call
    order,        \* iteration order of the unordered_map (sequence of names)
    pc,           \* "entry", "filter", "loop", "done"
    it,           \* position of the range-for in order
    eligible,     \* the call-local vector
    max_try,
    try_count,
    result,       \* what the call returned
    called,       \* history: pool -> number of allocate calls in this call
    succeeded,    \* history: pools whose allocate succeeded in this call
    seen,         \* history: pool -> <<capacity, used>> the call went by
    reads,        \* history: pool -> number of counter queries in this call
    used0,        \* history: used at the entry of this call
    allocators0,  \* history: allocators at the entry of this call
    ext,          \* history: pool -> bytes taken by other users during this call
    iters,        \* history: retry-loop iterations of this call
    nfailed,      \* history: allocate calls of this call that gave nothing
    prevFailed,   \* history: pools whose allocate failed in the call before
    ncalls,       \* Allocate calls made so far
    nother        \* steps of the other users so far

vars == <<allocators, capacity, used, objectSize, order, pc, it, eligible,
          max_try, try_count, result, called, succeeded, seen, reads, used0,
          allocators0, ext, iters, nfailed, prevFailed, ncalls,
          nother>>

\* ---- values ----
Null == [kind |-> "null", pool |-> 0, size |-> 0]
Pending == [kind |-> "pending", pool |-> 0, size |-> 0]
Handle(p, n) == [kind |-> "handle", pool |-> p, size |-> n]

Min(a, b) == IF a < b THEN a ELSE b

Names == DOMAIN allocators
Pools == {allocators[k] : k \in Names}
NumPools == Cardinality(Names)
Small == NumPools <= SmallPools

Perms(S) == {f \in [1..Cardinality(S) -> S] :
               \A i, j \in 1..Cardinality(S) : f[i] = f[j] => i = j}

\* ---- pure parts of Allocate ----
\* the fast path left out
IsSinglePool_Never(m) == FALSE

\* line 45
IsSinglePool(m) == Cardinality(DOMAIN m) = 1

\* the subtraction without the clamp, wrapping as an unsigned value does
Available_Unclamped(cap, usd) == (cap - usd) % 65536

\* line 56
Available(cap, usd) == IF cap > usd THEN cap - usd ELSE 0

\* the used bytes forgotten
IsEligible_CapacityOnly(cap, usd, n) == cap >= n

\* every pool taken as eligible
IsEligible_Always(cap, usd, n) == TRUE

\* line 58
IsEligible(cap, usd, n) == Available(cap, usd) >= n

\* the limit taken one too small
MaxTry_OneShort(len) == Min(max_try_limit - 1, len)

\* the minimum with the list length left out
MaxTry_LimitOnly(len) == max_try_limit

\* the try limit left out
MaxTry_Uncapped(len) == len

\* one try more than the limit
MaxTry_OffByOne(len) == Min(max_try_limit + 1, len)

\* line 69
MaxTry(len) == Min(max_try_limit, len)

\* pop_back without the swap: the last pool is dropped, the failed one stays
SwapRemove_NoSwap(s, i) == SubSeq(s, 1, Len(s) - 1)

\* lines 82-85; i is the 0-based randomIndex
SwapRemove(s, i) ==
    LET swapped == IF i + 1 # Len(s)
                   THEN [s EXCEPT ![i + 1] = s[Len(s)], ![Len(s)] = s[i + 1]]
                   ELSE s
    IN SubSeq(swapped, 1, Len(s) - 1)

\* ---- the pool (BufferAllocator, declared in allocator.h) ----
\* allocate(n) can succeed only when the pool has n bytes left; it may fail
\* even then (fragmentation)
CanCarve(p, n) == used[p] + n <= capacity[p]

\* allocate(n) gives a handle: the pool's own accounting grows by n
PoolGives(p, n) ==
    /\ CanCarve(p, n)
    /\ used' = [used EXCEPT ![p] = @ + n]
    /\ succeeded' = succeeded \cup {p}
    /\ UNCHANGED nfailed

\* allocate(n) gives nothing: the pool is as it was
PoolRefuses(p, n) ==
    /\ UNCHANGED <<used, succeeded>>
    /\ nfailed' = nfailed + 1

ZeroFn == [p \in Pools |-> 0]
Unseen == [p \in Pools |-> <<>>]

\* ---- initial states: a strategy object and a caller about to call ----
\* Two families of pool sets: up to SmallPools pools with every combination
\* of counters and every iteration order of the map, and MaxPools pools (more
\* than max_try_limit) that all report the same counters, but for the last
\* one which may be full, and are iterated in key order.  Further calls and the other users of the pools are explored on
\* the first family (Small).
Init ==
    /\ \/ \E n \in 0..SmallPools :
            /\ allocators = [k \in 1..n |-> k]
            /\ capacity \in [1..n -> 1..MaxCap]
            /\ used \in [1..n -> 0..MaxUsed]
            /\ order \in Perms(1..n)
       \/ \E c \in 1..MaxCap, u \in 0..MaxUsed, lastFull \in BOOLEAN :
            /\ allocators = [k \in 1..MaxPools |-> k]
            /\ capacity = [p \in 1..MaxPools |-> c]
            /\ used = [p \in 1..MaxPools |->
                         IF lastFull /\ p = MaxPools THEN c ELSE u]
            /\ order = [i \in 1..MaxPools |-> i]
    /\ objectSize \in 0..MaxSize
    /\ pc = "entry"
    /\ it = 1
    /\ eligible = <<>>
    /\ max_try = 0
    /\ try_count = 0
    /\ result = Pending
    /\ called = ZeroFn
    /\ succeeded = {}
    /\ seen = Unseen
    /\ reads = ZeroFn
    /\ used0 = used
    /\ allocators0 = allocators
    /\ ext = ZeroFn
    /\ iters = 0
    /\ nfailed = 0
    /\ prevFailed = {}
    /\ ncalls = 1
    /\ nother = 0

\* the eligible list outlives the call (kept as a member, never cleared)
Return_KeepsList(r) ==
    /\ result' = r
    /\ pc' = "done"
    /\ it' = 1
    /\ max_try' = 0
    /\ try_count' = 0
    /\ UNCHANGED eligible

\* what returning does: the locals are destroyed with the frame
Return(r) ==
    /\ result' = r
    /\ pc' = "done"
    /\ eligible' = <<>>
    /\ it' = 1
    /\ max_try' = 0
    /\ try_count' = 0

\* lines 45-48: the single pool is asked directly
FastPath ==
    /\ pc = "entry"
    /\ IsSinglePool(allocators)
    /\ LET allocator == allocators[CHOOSE k \in Names : TRUE] IN
         /\ called' = [called EXCEPT ![allocator] = @ + 1]
         /\ seen' = [seen EXCEPT ![allocator] =
                        <<capacity[allocator], used[allocator]>>]
         /\ \/ /\ PoolGives(allocator, objectSize)
               /\ Return(Handle(allocator, objectSize))
            \/ /\ PoolRefuses(allocator, objectSize)
               /\ Return(Null)
    /\ UNCHANGED <<allocators, capacity, objectSize, order, reads, used0,
                   allocators0, ext, iters, ncalls, nother>>
    /\ UNCHANGED prevFailed

\* lines 52-61: one iteration of the range-for
FilterStep ==
    /\ pc \in {"entry", "filter"}
    /\ ~IsSinglePool(allocators)
    /\ it <= Len(order)
    /\ LET allocator == allocators[order[it]]
       IN /\ reads' = [reads EXCEPT ![allocator] = @ + 1]
          /\ seen' = [seen EXCEPT ![allocator] =
                         <<capacity[allocator], used[allocator]>>]
          /\ eligible' = IF IsEligible(capacity[allocator], used[allocator],
                                       objectSize)
                         THEN Append(eligible, allocator)
                         ELSE eligible
    /\ it' = it + 1
    /\ pc' = "filter"
    /\ UNCHANGED <<allocators, capacity, used, objectSize, order, max_try,
                   try_count, result, called, succeeded, used0, allocators0,
                   ext, iters, nfailed, ncalls, nother>>
    /\ UNCHANGED prevFailed

\* lines 64-66
NoEligible ==
    /\ pc \in {"entry", "filter"}
    /\ ~IsSinglePool(allocators)
    /\ it > Len(order)
    /\ eligible = <<>>
    /\ Return(Null)
    /\ UNCHANGED <<allocators, capacity, used, objectSize, order, called,
                   succeeded, seen, reads, used0, allocators0, ext, iters, nfailed,
                   ncalls, nother>>
    /\ UNCHANGED prevFailed

\* lines 68-72: the loop is entered
EnterLoop ==
    /\ pc \in {"entry", "filter"}
    /\ ~IsSinglePool(allocators)
    /\ it > Len(order)
    /\ eligible # <<>>
    /\ max_try' = MaxTry(Len(eligible))
    /\ try_count' = 0
    /\ pc' = "loop"
    /\ UNCHANGED <<allocators, capacity, used, objectSize, order, it, eligible,
                   result, called, succeeded, seen, reads, used0, allocators0,
                   ext, iters, nfailed, ncalls, nother>>
    /\ UNCHANGED prevFailed

\* the handle is kept but the loop goes on
OnSuccess_KeepsTrying(allocator) ==
    /\ result' = Handle(allocator, objectSize)
    /\ try_count' = try_count + 1
    /\ UNCHANGED <<allocators, pc, it, eligible, max_try>>

\* lines 78-80: the attempt gave a handle
OnSuccess(allocator) ==
    /\ Return(Handle(allocator, objectSize))
    /\ UNCHANGED allocators

\* the first failed attempt ends the call
OnFailure_GivesUp(randomIndex) ==
    /\ Return(Null)
    /\ UNCHANGED allocators

\* the pool's failure is passed on to the caller
OnFailure_Propagates(randomIndex) ==
    /\ Return([kind |-> "error", pool |-> eligible[randomIndex + 1], size |-> 0])
    /\ UNCHANGED allocators

\* the failed pool is erased from the caller's map as well
OnFailure_ErasesFromMap(randomIndex) ==
    /\ eligible' = SwapRemove(eligible, randomIndex)
    /\ try_count' = try_count + 1
    /\ allocators' = [k \in {j \in Names : allocators[j] # eligible[randomIndex + 1]}
                        |-> allocators[k]]
    /\ UNCHANGED <<pc, it, max_try, result>>

\* lines 81-85 and the try_count++ of line 72: the attempt gave nothing
OnFailure(randomIndex) ==
    /\ eligible' = SwapRemove(eligible, randomIndex)
    /\ try_count' = try_count + 1
    /\ UNCHANGED <<allocators, pc, it, max_try, result>>

\* lines 72-86: one iteration of the retry loop
TryAllocate ==
    /\ pc = "loop"
    /\ try_count < max_try
    /\ iters' = iters + 1
    /\ \E randomIndex \in 0..(Len(eligible) - 1) :
         LET allocator == eligible[randomIndex + 1] IN
           /\ called' = [called EXCEPT ![allocator] = @ + 1]
           /\ \/ /\ PoolGives(allocator, objectSize)
                 /\ OnSuccess(allocator)
              \/ /\ PoolRefuses(allocator, objectSize)
                 /\ OnFailure(randomIndex)
    /\ UNCHANGED <<capacity, objectSize, order, seen, reads, used0,
                   allocators0, ext, ncalls, nother>>
    /\ UNCHANGED prevFailed

\* line 87: the for condition fails
LoopExit ==
    /\ pc = "loop"
    /\ try_count >= max_try
    /\ Return(Null)
    /\ UNCHANGED <<allocators, capacity, used, objectSize, order, called,
                   succeeded, seen, reads, used0, allocators0, ext, iters, nfailed,
                   ncalls, nother>>
    /\ UNCHANGED prevFailed

\* the caller calls Allocate again on the same strategy object
NewCall ==
    /\ pc = "done"
    /\ Small
    /\ ncalls < MaxCalls
    /\ ncalls' = ncalls + 1
    /\ objectSize' \in 0..MaxSize
    /\ order' \in Perms(Names)
    /\ pc' = "entry"
    /\ result' = Pending
    /\ called' = ZeroFn
    /\ succeeded' = {}
    /\ seen' = Unseen
    /\ reads' = ZeroFn
    /\ used0' = used
    /\ allocators0' = allocators
    /\ ext' = ZeroFn
    /\ iters' = 0
    /\ nfailed' = 0
    /\ prevFailed' = {p \in DOMAIN called : called[p] > 0 /\ p \notin succeeded}
    /\ UNCHANGED <<allocators, capacity, used, it, eligible, max_try,
                   try_count, nother>>

\* another user of a pool takes the rest of its space while a call runs
OtherUser ==
    /\ pc \in {"entry", "filter", "loop"}
    /\ Small
    /\ nother < MaxOther
    /\ \E p \in Pools :
         /\ used[p] < capacity[p]
         /\ used' = [used EXCEPT ![p] = capacity[p]]
         /\ ext' = [ext EXCEPT ![p] = @ + (capacity[p] - used[p])]
    /\ nother' = nother + 1
    /\ UNCHANGED <<allocators, capacity, objectSize, order, pc, it, eligible,
                   max_try, try_count, result, called, succeeded, seen, reads,
                   used0, allocators0, iters, nfailed, ncalls>>
    /\ UNCHANGED prevFailed

Next ==
    \/ FastPath
    \/ FilterStep
    \/ NoEligible
    \/ EnterLoop
    \/ TryAllocate
    \/ LoopExit
    \/ NewCall
    \/ OtherUser

Spec == Init /\ [][Next]_vars

\* the steps of the call itself: straight-line code that the caller's thread
\* keeps running until it returns
CallStep ==
    \/ FastPath
    \/ FilterStep
    \/ NoEligible
    \/ EnterLoop
    \/ TryAllocate
    \/ LoopExit

FairSpec == Spec /\ WF_vars(CallStep)

\* ---- what the properties speak about ----
RECURSIVE SumOver(_, _)
SumOver(f, S) == IF S = {} THEN 0
                 ELSE LET x == CHOOSE y \in S : TRUE
                      IN f[x] + SumOver(f, S \ {x})

\* allocate calls made by the running call
TotalCalls == SumOver(called, DOMAIN called)
Attempted == {p \in DOMAIN called : called[p] > 0}

\* the clamped available space, as the specification words it
Clamped(cu) == IF cu[1] - cu[2] > 0 THEN cu[1] - cu[2] ELSE 0

\* a pool's counters as the call went by them gave room for the request
FitsAtCheck(p) == seen[p] # <<>> /\ Clamped(seen[p]) >= objectSize
FitAtCheck == {p \in DOMAIN seen : FitsAtCheck(p)}
Done == pc = "done"
Range(s) == {s[i] : i \in 1..Len(s)}

\* C1 (P1): with exactly one pool in the set, the pool's allocate is called
\* exactly once whatever its counters say, nothing else is read or retried,
\* and Allocate returns what that one call gave.
P1_SinglePoolFastPath ==
    (Done /\ Cardinality(DOMAIN allocators0) = 1) =>
        \A p \in DOMAIN called :
            /\ called[p] = 1
            /\ iters = 0
            /\ result = IF p \in succeeded THEN Handle(p, objectSize) ELSE Null

\* a full single pool was asked once and gave nothing
P1_Witness ==
    /\ Done
    /\ Cardinality(DOMAIN allocators0) = 1
    /\ \A p \in DOMAIN called :
         used0[p] >= capacity[p] /\ objectSize > 0 /\ called[p] = 1
    /\ result = Null

\* C2 (P2) as stated: in every pool set, a pool whose clamped available space
\* is below the requested size is never attempted.
P2_EveryPoolSet ==
    \A p \in Attempted : FitsAtCheck(p)

\* C2 (P2) amended: in a pool set that is not a single pool, a pool whose
\* clamped available space at the eligibility check is below the requested
\* size is never attempted.
P2_Eligibility ==
    Cardinality(DOMAIN allocators0) # 1 => \A p \in Attempted : FitsAtCheck(p)

\* one pool was too full and was left alone, another was attempted
P2_Witness ==
    /\ Done
    /\ Cardinality(DOMAIN allocators0) >= 2
    /\ \E p \in DOMAIN called : ~FitsAtCheck(p) /\ called[p] = 0
    /\ Attempted # {}

\* C3 (P3) as stated: for every pool set, when no pool's clamped available
\* space reaches the requested size, Allocate returns no handle and calls no
\* pool's allocate.
P3_EveryPoolSet ==
    (Done /\ FitAtCheck = {}) => (result = Null /\ TotalCalls = 0)

\* C3 (P3) amended: the same for every pool set that is not a single pool
\* (the empty set included).
P3_NoEligiblePool ==
    (Done /\ FitAtCheck = {} /\ Cardinality(DOMAIN allocators0) # 1) =>
        (result = Null /\ TotalCalls = 0 /\ iters = 0)

\* two or more pools, all too full: no handle, no call
P3_Witness ==
    /\ Done
    /\ Cardinality(DOMAIN allocators0) >= 2
    /\ FitAtCheck = {}
    /\ \A p \in DOMAIN reads : reads[p] = 1
    /\ result = Null

\* C4 (P4) as stated: the allocate calls of one invocation never exceed
\* min(10, number of pools eligible at the check).
P4_EveryPoolSet ==
    TotalCalls <= Min(10, Cardinality(FitAtCheck))

\* C4 (P4) amended: the bound holds when the pool set is not a single pool;
\* on a single pool there is at most the one call of the fast path.
P4_RetryBound ==
    /\ Cardinality(DOMAIN allocators0) # 1 =>
          TotalCalls <= Min(10, Cardinality(FitAtCheck))
    /\ Cardinality(DOMAIN allocators0) = 1 => TotalCalls <= 1

\* more than ten eligible pools, ten calls made
P4_Witness ==
    /\ Done
    /\ Cardinality(FitAtCheck) > 10
    /\ TotalCalls = 10

\* C5 (P5): once an attempted pool's allocate has succeeded the call is over,
\* it has returned that pool's handle, and its attempts are the failed ones
\* before the success plus one.
P5_FirstSuccessWins ==
    succeeded # {} =>
        /\ Done
        /\ \E p \in DOMAIN called : succeeded = {p} /\ result = Handle(p, objectSize)
        /\ TotalCalls = nfailed + 1

\* Scenario D: two sampled pools failed, the third gave the handle
P5_Witness ==
    /\ Done
    /\ result.kind = "handle"
    /\ nfailed = 2
    /\ TotalCalls = 3

\* C6 (P6): when every attempted pool has failed, the call returns no handle
\* and nothing else.
P6_ExhaustionAfterRetries ==
    (Done /\ succeeded = {}) => result = Null

\* several pools were attempted, all failed, no handle came back
P6_Witness ==
    /\ Done
    /\ nfailed >= 2
    /\ succeeded = {}
    /\ result = Null

\* C7 (Scenario C): no pool is attempted twice in one invocation, and when
\* all attempts fail on a set of two or more pools, exactly
\* min(10, eligible pools) distinct pools have been attempted.
ScenarioC_NoRepetition ==
    /\ \A p \in DOMAIN called : called[p] <= 1
    /\ (Done /\ succeeded = {} /\ Cardinality(DOMAIN allocators0) >= 2) =>
          Cardinality(Attempted) = Min(10, Cardinality(FitAtCheck))

\* more than ten eligible pools all fail: ten distinct pools attempted
ScenarioC_Witness ==
    /\ Done
    /\ result = Null
    /\ Cardinality(FitAtCheck) > 10
    /\ Cardinality(Attempted) = 10

\* C8: a returned handle comes from exactly one pool whose allocate succeeded
\* in this invocation; that pool's used counter grew by the requested size
\* and no other pool's counter was changed by the invocation.
ResultGuarantee ==
    result.kind = "handle" =>
        \E p \in DOMAIN called :
            /\ succeeded = {p}
            /\ result = Handle(p, objectSize)
            /\ \A q \in DOMAIN called :
                 used[q] = used0[q] + ext[q] + (IF q = p THEN objectSize ELSE 0)

\* a handle came back after another pool had failed
ResultGuarantee_Witness ==
    /\ Done
    /\ result.kind = "handle"
    /\ objectSize > 0
    /\ nfailed >= 1
    /\ used[result.pool] = used0[result.pool] + objectSize

\* C9: every call, on any pool set and for any size, comes to its return
\* after at most 10 iterations of the retry loop, and what it returns is a
\* handle or no handle.
Termination ==
    /\ [](iters <= 10)
    /\ [](Done => result.kind \in {"handle", "null"})
    /\ (~Done ~> Done)

\* a call that used all ten iterations and returned
Termination_Witness ==
    /\ Done
    /\ iters = 10
    /\ result = Null

\* C10: the caller's pool set is the same after the call as before it, and at
\* every point in between.
PoolSetFrame ==
    allocators = allocators0

\* the call has removed pools from its eligible list and returned
PoolSetFrame_Witness ==
    /\ Done
    /\ nfailed >= 2
    /\ allocators = allocators0

\* C11: on a set of two or more pools, when another user has taken a pool's
\* space after the call judged it eligible and the call's attempt on it then
\* fails, the call drops that pool from its eligible list, counts the try and
\* goes on with the loop; and a call returns a handle exactly when one of its
\* attempts succeeded, the handle being that pool's.
AcceptedRace ==
    /\ [][\A p \in DOMAIN called :
            ( /\ pc = "loop"
              /\ Cardinality(DOMAIN allocators0) >= 2
              /\ FitsAtCheck(p)
              /\ ext[p] > 0
              /\ called'[p] = called[p] + 1
              /\ p \notin succeeded' )
            => ( /\ pc' = "loop"
                 /\ result' = Pending
                 /\ p \notin Range(eligible')
                 /\ try_count' = try_count + 1 )]_vars
    /\ [](Done => IF succeeded = {} THEN result = Null
                  ELSE result.kind = "handle" /\ result.pool \in succeeded)

\* a pool was judged eligible, lost its space to another user, was attempted
\* and failed; another pool then gave the handle
AcceptedRace_Witness ==
    /\ Done
    /\ result.kind = "handle"
    /\ \E p \in DOMAIN called :
         /\ FitsAtCheck(p)
         /\ ext[p] > 0
         /\ called[p] = 1
         /\ p \notin succeeded
         /\ seen[p][2] + objectSize <= capacity[p]
         /\ used[p] + objectSize > capacity[p]

\* C12: in one invocation each pool's counters are queried at most once, no
\* query comes after the first allocate call, and the single-pool fast path
\* queries nothing.
SingleReadOfCounters ==
    /\ [](\A p \in DOMAIN reads : reads[p] <= 1)
    /\ [](Cardinality(DOMAIN allocators0) = 1 =>
            \A p \in DOMAIN reads : reads[p] = 0)
    /\ [][reads' # reads => (TotalCalls = 0 \/ pc = "done")]_vars

\* every pool of a larger set was queried once, then pools were attempted
SingleReadOfCounters_Witness ==
    /\ Done
    /\ Cardinality(DOMAIN allocators0) >= 2
    /\ \A p \in DOMAIN reads : reads[p] = 1
    /\ TotalCalls >= 2

\* C13: a pool that reports used >= capacity has available space 0, and in a
\* set of two or more pools the filter takes it as eligible exactly when the
\* requested size is 0.
ClampedAvailability ==
    /\ \A c \in 1..MaxCap, u \in 0..MaxUsed : u >= c => Available(c, u) = 0
    /\ pc = "filter" =>
          \A p \in DOMAIN seen :
              (seen[p] # <<>> /\ seen[p][2] >= seen[p][1]) =>
                  (p \in Range(eligible) <=> objectSize = 0)

\* a pool reporting more used than capacity was passed over for a positive
\* size while another pool was taken
ClampedAvailability_Witness ==
    /\ pc = "filter"
    /\ objectSize > 0
    /\ eligible # <<>>
    /\ \E p \in DOMAIN seen :
         seen[p] # <<>> /\ seen[p][2] > seen[p][1] /\ p \notin Range(eligible)

\* C14: in every call, the first or a later one, the pools the filter puts on
\* the eligible list are exactly those whose counters read in this call leave
\* room for this call's size, and the pools attempted or still to be drawn in
\* the loop are exactly those; what earlier calls did plays no part.
NoMemoryAcrossCalls ==
    /\ pc \in {"entry", "filter"} =>
          /\ Range(eligible) = FitAtCheck
          /\ Len(eligible) = Cardinality(FitAtCheck)
    /\ pc = "loop" => Range(eligible) \cup Attempted = FitAtCheck

\* a pool whose allocate failed in the call before is attempted again
NoMemoryAcrossCalls_Witness ==
    /\ ncalls = 2
    /\ Cardinality(DOMAIN allocators0) >= 2
    /\ \E p \in prevFailed : called[p] = 1 /\ FitsAtCheck(p)

\* C15: on a set of two or more pools of which at most 10 are eligible, a
\* call that returns no handle has attempted every eligible pool exactly once
\* and each of them has failed.
CompleteWithinBudget ==
    ( /\ Done
      /\ result = Null
      /\ Cardinality(DOMAIN allocators0) >= 2
      /\ Cardinality(FitAtCheck) <= 10 )
    => \A p \in FitAtCheck : called[p] = 1 /\ p \notin succeeded

\* ten eligible pools among more, every one attempted and failed
CompleteWithinBudget_Witness ==
    /\ Done
    /\ result = Null
    /\ Cardinality(FitAtCheck) = 10
    /\ Cardinality(DOMAIN allocators0) > 10
    /\ nfailed = 10

\* C16: whenever the retry loop is about to draw, the eligible list is not
\* empty, so the index range 0 .. size-1 is well formed; and throughout the
\* loop try_count plus the length of the list is the number of pools the
\* filter found eligible.
DrawInvariant ==
    pc = "loop" =>
        /\ try_count < max_try => Len(eligible) >= 1
        /\ try_count + Len(eligible) = Cardinality(FitAtCheck)
        /\ max_try <= Cardinality(FitAtCheck)

\* the last draw of a loop that began with several pools: one pool is left
DrawInvariant_Witness ==
    /\ pc = "loop"
    /\ try_count < max_try
    /\ try_count >= 2
    /\ Len(eligible) = 1

\* C17: a failed attempt removes from the eligible list the attempted pool
\* and nothing else: the pools left are those before without the failed one,
\* each still once.
SwapRemoveExact ==
    [][\A p \in DOMAIN called :
         (pc = "loop" /\ called'[p] = called[p] + 1 /\ nfailed' = nfailed + 1)
         => ( /\ Range(eligible') = Range(eligible) \ {p}
              /\ Len(eligible') = Len(eligible) - 1
              /\ Cardinality(Range(eligible')) = Len(eligible') )]_vars

\* the list after failed attempts of which one was not at the last position:
\* the swap has put a later pool before an earlier one
SwapRemoveExact_Witness ==
    /\ pc = "loop"
    /\ nfailed >= 2
    /\ Len(eligible) >= 3
    /\ \E i, j \in 1..Len(eligible) : i < j /\ eligible[i] > eligible[j]
====
